---- MODULE Spec2Model ----
(***************************************************************************)
(* Reminder delivery state machine of src/bot.py: the reminders table,     *)
(* the TASKS registry, the asyncio delivery tasks (reminder_task), the     *)
(* callback handlers (on_callback), reminder creation (set_reminder) and   *)
(* startup recovery (on_startup).                                          *)
(*                                                                         *)
(* One action is one run of a handler or of a task between two awaits:     *)
(* asyncio is single-threaded, so code between two awaits is atomic.       *)
(* A task is suspended only in asyncio.sleep (pc = "sleep") or in          *)
(* bot.send_message (pc = "send_plain" / "send_esc").  A notification      *)
(* counts as sent when the awaited send_message returns; a task that is    *)
(* cancelled while it awaits gets CancelledError at that await.            *)
(***************************************************************************)
EXTENDS Integers, FiniteSets, Sequences, TLC

\* ---- program constants ----
REPEAT_INTERVAL_SEC == 120
MAX_ATTEMPTS == 3

\* ---- bounds of the model ----
MaxId == 2          \* reminder ids the store hands out: 1..MaxId
MaxProcs == 2       \* task objects that exist at the same time
TickStep == 120     \* seconds the clock advances per Tick
MaxTime == 960      \* the clock stops here in a run with one reminder
ShortTime == 360    \* the clock stops here in a run with more reminders
CreateDelay == 120  \* seconds between a creation and its parsed fire time
MaxFailures == 1    \* storage writes that raise in one run
MaxLen == 3         \* tokens in a text handed to the parser

Ids == 1..MaxId
Slots == 1..MaxProcs
None == [none |-> TRUE]

VARIABLES
    reminders,   \* the reminders table: id -> row, for the ids present
    nextId,      \* the next id of the table's autoincrement key
    TASKS,       \* the registry: id -> slot of the task registered for id
    procs,       \* slot -> task object (Idle when the slot holds no task)
    now,         \* the clock, epoch seconds
    plainSent,   \* id -> plain notifications sent since creation / last confirm_no
    escSent,     \* id -> escalation prompts sent since creation / last confirm_no
    ackBtn,      \* ids for which an ack button has been shown to the user
    confirmBtn,  \* ids for which yes/no buttons have been shown to the user
    resetAt,     \* id -> run_at written by the last confirm_no on its row, if any
    lastAct,     \* the handler or task step that produced this state
    up,          \* the program is running
    sendFailed,  \* ids whose last send raised, until the next startup or spawn
    lastSent,    \* id -> time the last notification for its row was sent
    text,        \* the message text handed to the parser
    parsed,      \* what parse_time_from_text returned for it
    failures     \* storage writes that have raised so far

vars == <<reminders, nextId, TASKS, procs, now, plainSent, escSent,
          ackBtn, confirmBtn, resetAt, lastAct, up, sendFailed, lastSent,
          text, parsed, failures>>

\* stale: a callback has written the row since the task last read it
\* resumed: the task's last read of the row followed the end of a sleep
Idle == [rid |-> 0, pc |-> "done", wakeAt |-> 0, attempts |-> 0,
         cancelled |-> FALSE, orphan |-> FALSE, stale |-> FALSE, resumed |-> FALSE]

Act(kind, id, p) == [kind |-> kind, id |-> id, proc |-> p]

\* ---- the store ----

\* a read that returns a row with the column defaults for an absent id
get_reminder_default(db, id) ==
    IF id \in DOMAIN db THEN db[id]
    ELSE [run_at |-> 0, attempts |-> 0, acknowledged |-> FALSE, awaiting_confirm |-> FALSE]

\* SELECT ... WHERE id = ?: the row, or None when there is none
get_reminder(db, id) == IF id \in DOMAIN db THEN db[id] ELSE None

\* a delete that marks the row acknowledged and keeps it
delete_reminder_mark(db, id) ==
    [i \in DOMAIN db |-> IF i = id THEN [db[i] EXCEPT !.acknowledged = TRUE] ELSE db[i]]

\* DELETE FROM reminders WHERE id = ?
delete_reminder(db, id) == [i \in (DOMAIN db) \ {id} |-> db[i]]

\* an update that inserts the row when the id is absent
update_reminder_state_upsert(db, id, upd) ==
    LET defaults == [run_at |-> 0, attempts |-> 0,
                     acknowledged |-> FALSE, awaiting_confirm |-> FALSE]
        old == IF id \in DOMAIN db THEN db[id] ELSE defaults
    IN [i \in (DOMAIN db) \cup {id} |->
          IF i = id
          THEN [f \in DOMAIN old |-> IF f \in DOMAIN upd THEN upd[f] ELSE old[f]]
          ELSE db[i]]

\* UPDATE ... WHERE id = ?: the named columns of the row, no row if id is absent
update_reminder_state(db, id, upd) ==
    IF id \in DOMAIN db
    THEN [db EXCEPT ![id] =
            [f \in DOMAIN db[id] |-> IF f \in DOMAIN upd THEN upd[f] ELSE db[id][f]]]
    ELSE db

\* INSERT (chat_id, text, run_at): the other columns take their defaults
add_reminder(db, id, run_at) ==
    [i \in (DOMAIN db) \cup {id} |->
        IF i = id
        THEN [run_at |-> run_at, attempts |-> 0,
              acknowledged |-> FALSE, awaiting_confirm |-> FALSE]
        ELSE db[i]]

load_pending_reminders(db, now_ts) ==
    {id \in DOMAIN db : /\ db[id].run_at >= now_ts
                        /\ ~db[id].acknowledged
                        /\ ~db[id].awaiting_confirm}

\* ---- the registry and the tasks ----
Pop(tasks, id) == [i \in (DOMAIN tasks) \ {id} |-> tasks[i]]

\* a task that is neither finished nor cancelled
Live(ps, p) == ps[p].pc # "done" /\ ~ps[p].cancelled

LiveFor(ps, id) == {p \in Slots : ps[p].rid = id /\ Live(ps, p)}

\* a slot holds no task once its task is finished and nothing refers to it
Free(tasks, ps) == {p \in Slots : ps[p].pc = "done" /\ \A i \in DOMAIN tasks : tasks[i] # p}

\* task.cancel(): a task that has not run yet never runs its body (nothing of
\* reminder_task executes, not even its finally); a suspended task is marked
\* and gets CancelledError at its await when the loop next runs it
Cancel(ps, p) ==
    IF ps[p].pc = "start" THEN [ps EXCEPT ![p] = Idle]
    ELSE IF ps[p].pc = "done" THEN ps
    ELSE [ps EXCEPT ![p].cancelled = TRUE]

NewTask(id) == [rid |-> id, pc |-> "start", wakeAt |-> 0, attempts |-> 0,
               cancelled |-> FALSE, orphan |-> FALSE, stale |-> FALSE, resumed |-> FALSE]

\* a schedule_reminder that cancels the registered task and creates none
schedule_reminder_cancel_only(st, id) ==
    [tasks |-> Pop(st.tasks, id),
     procs |-> IF id \in DOMAIN st.tasks THEN Cancel(st.procs, st.tasks[id]) ELSE st.procs]

\* schedule_reminder on the pair st = [tasks, procs]
schedule_reminder(st, id) ==
    LET existing == IF id \in DOMAIN st.tasks THEN {st.tasks[id]} ELSE {}
        tasks1 == Pop(st.tasks, id)
        procs1 == IF existing = {} THEN st.procs
                  ELSE Cancel(st.procs, CHOOSE p \in existing : TRUE)
        free == Free(tasks1, procs1)
        slot == CHOOSE p \in free : \A q \in free : p <= q
    IN [tasks |-> [i \in (DOMAIN tasks1) \cup {id} |-> IF i = id THEN slot ELSE tasks1[i]],
        procs |-> [procs1 EXCEPT ![slot] = NewTask(id)]]

CanSchedule(tasks, ps, id) ==
    Free(Pop(tasks, id),
         IF id \in DOMAIN tasks THEN Cancel(ps, tasks[id]) ELSE ps) # {}

NotParsed == [ok |-> FALSE, err |-> "", body |-> << >>, run_at |-> 0,
              matcher |-> 0, h |-> 0, m |-> 0]

\* an empty table, an empty registry, no task
Boot ==
    /\ reminders = [i \in {} |-> None]
    /\ nextId = 1
    /\ TASKS = [i \in {} |-> 0]
    /\ procs = [p \in Slots |-> Idle]
    /\ plainSent = [i \in Ids |-> 0]
    /\ escSent = [i \in Ids |-> 0]
    /\ ackBtn = {}
    /\ confirmBtn = {}
    /\ resetAt = [i \in {} |-> 0]
    /\ lastAct = Act("init", 0, 0)
    /\ up = TRUE
    /\ sendFailed = {}
    /\ lastSent = [i \in {} |-> 0]
    /\ failures = 0

Init ==
    /\ Boot
    /\ now = 0
    /\ text = << >>
    /\ parsed = NotParsed

\* runs with one reminder are followed up to MaxTime, runs with more of them
\* up to ShortTime
Horizon == IF nextId > 2 THEN ShortTime ELSE MaxTime

\* a task the event loop will run without waiting for anything
Ready(p) ==
    \/ procs[p].pc = "start"
    \/ procs[p].pc = "sleep" /\ now >= procs[p].wakeAt
    \/ procs[p].pc # "done" /\ procs[p].cancelled

\* the clock advances; the event loop runs the tasks that are ready well
\* within TickStep seconds, a send_message in flight or a stopped program
\* can take any time
Tick ==
    /\ now + TickStep <= Horizon
    /\ \A p \in Slots : ~Ready(p)
    /\ now' = now + TickStep
    /\ lastAct' = Act("tick", 0, 0)
    /\ UNCHANGED <<reminders, nextId, TASKS, procs, plainSent, escSent,
                   ackBtn, confirmBtn, resetAt, up,
                 sendFailed, lastSent, text, parsed, failures>>

\* set_reminder / handle_voice after a successful parse
set_reminder ==
    /\ up
    /\ nextId <= MaxId
    /\ nextId > 1 => now <= ShortTime
    /\ CanSchedule(TASKS, procs, nextId)
    /\ LET st == schedule_reminder([tasks |-> TASKS, procs |-> procs], nextId)
       IN /\ reminders' = add_reminder(reminders, nextId, now + CreateDelay)
          /\ TASKS' = st.tasks
          /\ procs' = st.procs
    /\ nextId' = nextId + 1
    /\ lastAct' = Act("create", nextId, 0)
    /\ UNCHANGED <<now, plainSent, escSent, ackBtn, confirmBtn, resetAt, up,
                 sendFailed, lastSent, text, parsed, failures>>

\* ---- reminder_task ----

\* a task that goes on after it was cancelled
CanRun_ignoring_cancel(p) == procs[p].pc # "done"

\* the loop runs a task only while no CancelledError is pending for it
CanRun(p) == procs[p].pc # "done" /\ ~procs[p].cancelled

\* finally: TASKS.pop(reminder_id, None)
Cleanup(tasks, id) == Pop(tasks, id)

\* the task returns (or ends by an exception): its finally block runs
Finish(p, db) ==
    /\ reminders' = db
    /\ TASKS' = Cleanup(TASKS, procs[p].rid)
    /\ procs' = [procs EXCEPT ![p] = Idle]

\* a task that deletes the row once the attempts cap is reached
EscalationUpdate_delete(db, id) == delete_reminder(db, id)

\* update_reminder_state(reminder_id, awaiting_confirm=True)
EscalationUpdate(db, id) ==
    update_reminder_state(db, id, [awaiting_confirm |-> TRUE])

\* a write of run_at that leaves attempts as it was
PlainUpdate_keep_attempts(db, id, attempts, now_ts) ==
    update_reminder_state(db, id, [run_at |-> now_ts + REPEAT_INTERVAL_SEC])

\* attempts += 1; next_run = now + REPEAT_INTERVAL_SEC; update_reminder_state(...)
PlainUpdate(db, id, attempts, now_ts) ==
    update_reminder_state(db, id, [attempts |-> attempts + 1,
                                   run_at |-> now_ts + REPEAT_INTERVAL_SEC])

\* a delay that ends one repeat interval before run_at
Delay_early(run_at, now_ts) == run_at - now_ts - REPEAT_INTERVAL_SEC

\* delay = run_at - now_ts
Delay(run_at, now_ts) == run_at - now_ts

\* one pass of the while loop from get_reminder to its next await or return,
\* on the table db; wakeAt and attempts are the locals the task still uses
\* after the await (0 when it does not)
Loop(p, db) ==
    LET id == procs[p].rid
        reminder == get_reminder(db, id)
    IN IF reminder = None THEN Finish(p, db)
       ELSE IF reminder.acknowledged THEN Finish(p, delete_reminder(db, id))
       ELSE IF reminder.awaiting_confirm THEN Finish(p, db)
       ELSE /\ reminders' = db
            /\ TASKS' = TASKS
            /\ LET delay == Delay(reminder.run_at, now)
               IN IF delay > 0
                  THEN procs' = [procs EXCEPT ![p].pc = "sleep", ![p].wakeAt = now + delay,
                                              ![p].attempts = 0, ![p].stale = FALSE,
                                              ![p].resumed = (procs[p].pc = "sleep")]
                  ELSE IF reminder.attempts >= MAX_ATTEMPTS
                  THEN procs' = [procs EXCEPT ![p].pc = "send_esc", ![p].wakeAt = 0,
                                              ![p].attempts = 0, ![p].stale = FALSE,
                                              ![p].resumed = (procs[p].pc = "sleep")]
                  ELSE procs' = [procs EXCEPT ![p].pc = "send_plain", ![p].wakeAt = 0,
                                              ![p].attempts = reminder.attempts,
                                              ![p].stale = FALSE,
                                              ![p].resumed = (procs[p].pc = "sleep")]

\* the task starts, or its asyncio.sleep is over
Wake(p) ==
    /\ up
    /\ CanRun(p)
    /\ \/ procs[p].pc = "start"
       \/ procs[p].pc = "sleep" /\ now >= procs[p].wakeAt
    /\ Loop(p, reminders)
    /\ lastAct' = Act("wake", procs[p].rid, p)
    /\ UNCHANGED <<nextId, now, plainSent, escSent, ackBtn, confirmBtn, resetAt, up,
                 sendFailed, lastSent, text, parsed, failures>>

\* the time of a notification is noted for the rows that exist
Stamp(ls, db, id, t) ==
    IF id \in DOMAIN db
    THEN [i \in (DOMAIN ls) \cup {id} |-> IF i = id THEN t ELSE ls[i]]
    ELSE ls

\* send_message of the plain notification returns
SentPlain(p) ==
    /\ up
    /\ CanRun(p)
    /\ procs[p].pc = "send_plain"
    /\ LET id == procs[p].rid
       IN /\ plainSent' = [plainSent EXCEPT ![id] = @ + 1]
          /\ ackBtn' = ackBtn \cup {id}
          /\ Loop(p, PlainUpdate(reminders, id, procs[p].attempts, now))
          /\ lastAct' = Act("sent_plain", id, p)
          /\ lastSent' = Stamp(lastSent, reminders, id, now)
          /\ sendFailed' = sendFailed \ {id}
    /\ UNCHANGED <<nextId, now, escSent, confirmBtn, resetAt, up, text, parsed, failures>>

\* send_message of the escalation prompt returns
SentEsc(p) ==
    /\ up
    /\ CanRun(p)
    /\ procs[p].pc = "send_esc"
    /\ LET id == procs[p].rid
       IN /\ escSent' = [escSent EXCEPT ![id] = @ + 1]
          /\ confirmBtn' = confirmBtn \cup {id}
          /\ Finish(p, EscalationUpdate(reminders, id))
          /\ lastAct' = Act("sent_esc", id, p)
          /\ lastSent' = Stamp(lastSent, reminders, id, now)
          /\ sendFailed' = sendFailed \ {id}
    /\ UNCHANGED <<nextId, now, plainSent, ackBtn, resetAt, up, text, parsed, failures>>

\* send_message raises: except Exception logs it, finally runs
SendFail(p) ==
    /\ up
    /\ CanRun(p)
    /\ procs[p].pc \in {"send_plain", "send_esc"}
    /\ Finish(p, reminders)
    /\ lastAct' = Act("send_failed", procs[p].rid, p)
    /\ sendFailed' = IF procs[p].rid \in DOMAIN reminders
                     THEN sendFailed \cup {procs[p].rid} ELSE sendFailed
    /\ UNCHANGED <<nextId, now, plainSent, escSent, ackBtn, confirmBtn, resetAt, up,
                 lastSent, text, parsed, failures>>

\* CancelledError reaches the task at its await: except returns, finally runs
Cancelled(p) ==
    /\ up
    /\ procs[p].pc # "done"
    /\ procs[p].cancelled
    /\ Finish(p, reminders)
    /\ lastAct' = Act("cancelled", procs[p].rid, p)
    /\ UNCHANGED <<nextId, now, plainSent, escSent, ackBtn, confirmBtn, resetAt, up,
                 sendFailed, lastSent, text, parsed, failures>>

\* ---- on_callback ----

\* task = TASKS.pop(reminder_id, None); if task: task.cancel()
PopAndCancel(st, id) ==
    [tasks |-> Pop(st.tasks, id),
     procs |-> IF id \in DOMAIN st.tasks THEN Cancel(st.procs, st.tasks[id]) ELSE st.procs]

\* the del:, ack: and confirm_yes: branches
CancelAndDelete(kind, id) ==
    LET st == PopAndCancel([tasks |-> TASKS, procs |-> procs], id)
    IN /\ up
       /\ TASKS' = st.tasks
       /\ procs' = st.procs
       /\ reminders' = delete_reminder(reminders, id)
       /\ lastAct' = Act(kind, id, 0)
       /\ sendFailed' = sendFailed \ {id}
       /\ lastSent' = [i \in (DOMAIN lastSent) \ {id} |-> lastSent[i]]
       /\ UNCHANGED <<nextId, now, plainSent, escSent, ackBtn, confirmBtn, resetAt, up,
                    text, parsed, failures>>

\* the delete menu lists a reminder from its creation on
on_callback_del(id) == id < nextId /\ CancelAndDelete("del", id)

on_callback_ack(id) == id \in ackBtn /\ CancelAndDelete("ack", id)

on_callback_confirm_yes(id) == id \in confirmBtn /\ CancelAndDelete("confirm_yes", id)

\* a confirm_no whose write inserts the row when the id is absent
ConfirmNoUpdate_upsert(db, id, now_ts) ==
    update_reminder_state_upsert(db, id, [attempts |-> 0, awaiting_confirm |-> FALSE,
                                          acknowledged |-> FALSE,
                                          run_at |-> now_ts + REPEAT_INTERVAL_SEC])

\* update_reminder_state(id, attempts=0, awaiting_confirm=False, acknowledged=False, run_at=now+120)
ConfirmNoUpdate(db, id, now_ts) ==
    update_reminder_state(db, id, [attempts |-> 0, awaiting_confirm |-> FALSE,
                                   acknowledged |-> FALSE,
                                   run_at |-> now_ts + REPEAT_INTERVAL_SEC])

on_callback_confirm_no(id) ==
    /\ up
    /\ id \in confirmBtn
    /\ CanSchedule(TASKS, procs, id)
    /\ LET st == schedule_reminder([tasks |-> TASKS, procs |-> procs], id)
       IN /\ reminders' = ConfirmNoUpdate(reminders, id, now)
          /\ TASKS' = st.tasks
          /\ procs' = [q \in Slots |->
                IF q = st.tasks[id]
                THEN [st.procs[q] EXCEPT !.orphan = (id \notin DOMAIN reminders)]
                ELSE IF st.procs[q].rid = id /\ st.procs[q].pc # "done"
                        /\ id \in DOMAIN reminders
                THEN [st.procs[q] EXCEPT !.stale = TRUE]
                ELSE st.procs[q]]
    /\ plainSent' = [plainSent EXCEPT ![id] = IF id \in DOMAIN reminders THEN 0 ELSE @]
    /\ escSent' = [escSent EXCEPT ![id] = IF id \in DOMAIN reminders THEN 0 ELSE @]
    /\ resetAt' = IF id \in DOMAIN reminders
                  THEN [i \in (DOMAIN resetAt) \cup {id} |->
                          IF i = id THEN now + REPEAT_INTERVAL_SEC ELSE resetAt[i]]
                  ELSE resetAt
    /\ lastAct' = Act("confirm_no", id, 0)
    /\ sendFailed' = sendFailed \ {id}
    /\ UNCHANGED <<nextId, now, ackBtn, confirmBtn, up, lastSent, text, parsed, failures>>

\* ---- restart ----

\* the program stops: its tasks and TASKS are gone, the table stays
Crash ==
    /\ up
    /\ up' = FALSE
    /\ TASKS' = [i \in {} |-> 0]
    /\ procs' = [p \in Slots |-> Idle]
    /\ lastAct' = Act("crash", 0, 0)
    /\ UNCHANGED <<reminders, nextId, now, plainSent, escSent, ackBtn, confirmBtn, resetAt,
                 sendFailed, lastSent, text, parsed, failures>>

RECURSIVE ScheduleAll(_, _)
\* for (reminder_id,) in load_pending_reminders(): schedule_reminder(app, reminder_id)
ScheduleAll(st, ids) ==
    IF ids = {} THEN st
    ELSE LET id == CHOOSE i \in ids : \A j \in ids : i <= j
         IN ScheduleAll(schedule_reminder(st, id), ids \ {id})

\* the program starts: post_init runs on_startup before any update is handled
on_startup ==
    LET pending == load_pending_reminders(reminders, now)
        st == ScheduleAll([tasks |-> [i \in {} |-> 0], procs |-> [p \in Slots |-> Idle]],
                          pending)
    IN /\ ~up
       /\ Cardinality(pending) <= MaxProcs
       /\ TASKS' = st.tasks
       /\ procs' = st.procs
       /\ up' = TRUE
       /\ lastAct' = Act("startup", 0, 0)
       /\ sendFailed' = {}
       /\ UNCHANGED <<reminders, nextId, now, plainSent, escSent, ackBtn, confirmBtn,
                    resetAt, lastSent, text, parsed, failures>>

Next ==
    \/ Tick
    \/ set_reminder
    \/ Crash
    \/ on_startup
    \/ \E p \in Slots : Wake(p)
    \/ \E p \in Slots : SentPlain(p)
    \/ \E p \in Slots : SentEsc(p)
    \/ \E p \in Slots : SendFail(p)
    \/ \E p \in Slots : Cancelled(p)
    \/ \E id \in Ids : on_callback_del(id)
    \/ \E id \in Ids : on_callback_ack(id)
    \/ \E id \in Ids : on_callback_confirm_yes(id)
    \/ \E id \in Ids : on_callback_confirm_no(id)

Spec == Init /\ [][Next]_vars

NextSteady ==
    \/ Tick
    \/ set_reminder
    \/ \E p \in Slots : Wake(p)
    \/ \E p \in Slots : SentPlain(p)
    \/ \E p \in Slots : SentEsc(p)
    \/ \E p \in Slots : Cancelled(p)
    \/ \E id \in Ids : on_callback_del(id)
    \/ \E id \in Ids : on_callback_ack(id)
    \/ \E id \in Ids : on_callback_confirm_yes(id)
    \/ \E id \in Ids : on_callback_confirm_no(id)

\* the program in one run from main to its end, every send_message returning
SpecSteady == Init /\ [][NextSteady]_vars

\* ---- runs to completion ----

\* the clock of the runs followed to the end of every reminder
LiveHorizon == 2 * MaxTime

\* the longest time from a creation to the escalation prompt: the first
\* run_at, MAX_ATTEMPTS repeat intervals, and for each of the
\* MAX_ATTEMPTS + 1 notifications up to one step of the clock
Completion ==
    CreateDelay + MAX_ATTEMPTS * REPEAT_INTERVAL_SEC + (MAX_ATTEMPTS + 1) * TickStep

\* a task the event loop will run without waiting, or whose send_message is
\* in flight
Busy(p) == Ready(p) \/ procs[p].pc \in {"send_plain", "send_esc"}

\* the clock advances between the steps of the tasks; a send_message
\* returns before the clock's next step
TickLive ==
    /\ now + TickStep <= LiveHorizon
    /\ \A p \in Slots : ~Busy(p)
    /\ now' = now + TickStep
    /\ lastAct' = Act("tick", 0, 0)
    /\ UNCHANGED <<reminders, nextId, TASKS, procs, plainSent, escSent,
                   ackBtn, confirmBtn, resetAt, up,
                   sendFailed, lastSent, text, parsed, failures>>

\* set_reminder / handle_voice after a successful parse, early enough for
\* the reminder to be escalated before the clock stops
set_reminder_live ==
    /\ up
    /\ nextId <= MaxId
    /\ now + Completion <= LiveHorizon
    /\ CanSchedule(TASKS, procs, nextId)
    /\ LET st == schedule_reminder([tasks |-> TASKS, procs |-> procs], nextId)
       IN /\ reminders' = add_reminder(reminders, nextId, now + CreateDelay)
          /\ TASKS' = st.tasks
          /\ procs' = st.procs
    /\ nextId' = nextId + 1
    /\ lastAct' = Act("create", nextId, 0)
    /\ UNCHANGED <<now, plainSent, escSent, ackBtn, confirmBtn, resetAt, up,
                   sendFailed, lastSent, text, parsed, failures>>

NextLive ==
    \/ TickLive
    \/ set_reminder_live
    \/ \E p \in Slots : Wake(p)
    \/ \E p \in Slots : SentPlain(p)
    \/ \E p \in Slots : SentEsc(p)

\* the event loop runs every task that can run, every send_message returns,
\* and the clock goes on
Fairness ==
    /\ WF_vars(TickLive)
    /\ \A p \in Slots : WF_vars(Wake(p))
    /\ \A p \in Slots : WF_vars(SentPlain(p))
    /\ \A p \in Slots : WF_vars(SentEsc(p))

\* one run without callbacks, failures or restarts, fairly scheduled
SpecLive == Init /\ [][NextLive]_vars /\ Fairness

\* ---- storage failures ----

\* the task's update raises after the send: the loop does not reach its next
\* iteration nor the assumption that the row was written
StoreFailed_continue(p, db) == Loop(p, db)

\* the task's update_reminder_state raises after the send returned: except
\* Exception logs it, finally runs
StoreFailed(p, db) == Finish(p, db)

UpdateFail(p) ==
    /\ up
    /\ failures < MaxFailures
    /\ failures' = failures + 1
    /\ CanRun(p)
    /\ procs[p].pc \in {"send_plain", "send_esc"}
    /\ LET id == procs[p].rid
           plain == procs[p].pc = "send_plain"
       IN /\ plainSent' = [plainSent EXCEPT ![id] = IF plain THEN @ + 1 ELSE @]
          /\ escSent' = [escSent EXCEPT ![id] = IF plain THEN @ ELSE @ + 1]
          /\ ackBtn' = IF plain THEN ackBtn \cup {id} ELSE ackBtn
          /\ confirmBtn' = IF plain THEN confirmBtn ELSE confirmBtn \cup {id}
          /\ lastSent' = Stamp(lastSent, reminders, id, now)
          /\ StoreFailed(p, reminders)
          /\ lastAct' = Act("store_failed", id, p)
    /\ UNCHANGED <<nextId, now, resetAt, up, sendFailed, text, parsed>>

\* confirm_no: update_reminder_state raises, the handler is left before
\* schedule_reminder
on_callback_confirm_no_fail(id) ==
    /\ up
    /\ failures < MaxFailures
    /\ failures' = failures + 1
    /\ id \in confirmBtn
    /\ lastAct' = Act("confirm_no_failed", id, 0)
    /\ UNCHANGED <<reminders, nextId, TASKS, procs, now, plainSent, escSent, ackBtn,
                   confirmBtn, resetAt, up, sendFailed, lastSent, text, parsed>>

\* del, ack, confirm_yes: the task is popped and cancelled, then
\* delete_reminder raises
on_callback_delete_fail(id) ==
    LET st == PopAndCancel([tasks |-> TASKS, procs |-> procs], id)
    IN /\ up
       /\ failures < MaxFailures
       /\ failures' = failures + 1
       /\ id < nextId \/ id \in ackBtn \/ id \in confirmBtn
       /\ TASKS' = st.tasks
       /\ procs' = st.procs
       /\ lastAct' = Act("delete_failed", id, 0)
       /\ UNCHANGED <<reminders, nextId, now, plainSent, escSent, ackBtn, confirmBtn,
                      resetAt, up, sendFailed, lastSent, text, parsed>>

\* set_reminder: add_reminder raises, except Exception replies with an error
set_reminder_fail ==
    /\ up
    /\ failures < MaxFailures
    /\ failures' = failures + 1
    /\ nextId <= MaxId
    /\ lastAct' = Act("create_failed", nextId, 0)
    /\ UNCHANGED <<reminders, nextId, TASKS, procs, now, plainSent, escSent, ackBtn,
                   confirmBtn, resetAt, up, sendFailed, lastSent, text, parsed>>

NextFail ==
    \/ Next
    \/ \E p \in Slots : UpdateFail(p)
    \/ \E id \in Ids : on_callback_confirm_no_fail(id)
    \/ \E id \in Ids : on_callback_delete_fail(id)
    \/ set_reminder_fail

\* the program with storage writes that may raise
SpecFail == Init /\ [][NextFail]_vars

\* ---- parse_time_from_text ----

\* A text is a sequence of tokens separated by single spaces. A token is a
\* word in lower case (s, transliterated), a run of n digits with value v,
\* or a clock "v:m" / "v.m" whose hour has n digits and whose minute has two.
Word(s) == [k |-> "w", s |-> s, v |-> 0, n |-> 0, m |-> 0]
Num(v, n) == [k |-> "d", s |-> "", v |-> v, n |-> n, m |-> 0]
Clock(h, n, m) == [k |-> "c", s |-> "", v |-> h, n |-> n, m |-> m]

\* v = в, cherez = через, minut = минут, chas = час, devyat = девять,
\* tridcat = тридцать, polden = полдень, napomni = напомни, kupit = купить
Vocabulary ==
    {Word("v"), Word("cherez"), Word("minut"), Word("chas"), Word("devyat"),
     Word("tridcat"), Word("polden"), Word("napomni"), Word("kupit"),
     Num(9, 1), Num(0, 1), Num(30, 2), Num(75, 2),
     Clock(15, 2, 0), Clock(25, 2, 0)}

Texts == UNION {[1..n -> Vocabulary] : n \in 1..MaxLen}

\* the wall clock in Moscow is UTC + 3 h all year; a day has 86400 s
MOSCOW_TZ == 10800
DAY == 86400

\* 09:00:00 and 10:00:00 Moscow time of the first day of the epoch
ParseNows == {6 * 3600, 7 * 3600}

units ==
    [s \in {"nol", "odin", "odna", "dva", "dve", "tri", "chetyre", "pyat", "shest",
            "sem", "vosem", "devyat"} |->
        CASE s = "nol" -> 0
          [] s \in {"odin", "odna"} -> 1
          [] s \in {"dva", "dve"} -> 2
          [] s = "tri" -> 3
          [] s = "chetyre" -> 4
          [] s = "pyat" -> 5
          [] s = "shest" -> 6
          [] s = "sem" -> 7
          [] s = "vosem" -> 8
          [] s = "devyat" -> 9]

teens ==
    [s \in {"desyat", "odinnadcat", "dvenadcat", "trinadcat", "chetyrnadcat",
            "pyatnadcat", "shestnadcat", "semnadcat", "vosemnadcat", "devyatnadcat"} |->
        CASE s = "desyat" -> 10
          [] s = "odinnadcat" -> 11
          [] s = "dvenadcat" -> 12
          [] s = "trinadcat" -> 13
          [] s = "chetyrnadcat" -> 14
          [] s = "pyatnadcat" -> 15
          [] s = "shestnadcat" -> 16
          [] s = "semnadcat" -> 17
          [] s = "vosemnadcat" -> 18
          [] s = "devyatnadcat" -> 19]

tens ==
    [s \in {"dvadcat", "tridcat", "sorok", "pyatdesyat"} |->
        CASE s = "dvadcat" -> 20
          [] s = "tridcat" -> 30
          [] s = "sorok" -> 40
          [] s = "pyatdesyat" -> 50]

number_words == DOMAIN units \cup DOMAIN teens \cup DOMAIN tens

time_words == {"v", "vo", "chas", "chasa", "chasov", "polden", "polnoch"} \cup number_words

\* сделай, поставь, создай, напомни, напоминание, на, в, мне, пожалуйста
fillers_time == {"sdelay", "postav", "sozday", "napomni", "napominanie", "na", "v",
                 "mne", "pozhaluysta"}

\* the filler words of the two duration branches
fillers_tokens == {"sdelay", "sdelali", "postav", "sozday", "napomni", "napominanie",
                   "mne", "pozhaluysta"}

fillers_regex == {"sdelay", "postav", "sozday", "napomni", "napominanie", "mne",
                  "pozhaluysta"}

\* мин, минут, минуты, минуту
minute_words == {"min", "minut", "minuty", "minutu"}

IsWord(t, S) == t.k = "w" /\ t.s \in S

\* the leftmost of the positions S
First(S) == CHOOSE i \in S : \A j \in S : i <= j

RECURSIVE Flatten(_)
\* tokens = re.findall(r"[a-zа-я]+|\d+", lower): a clock gives two digit runs
Flatten(txt) ==
    IF txt = << >> THEN << >>
    ELSE LET t == Head(txt)
         IN (IF t.k = "c" THEN <<Num(t.v, t.n), Num(t.m, 2)>> ELSE <<t>>)
            \o Flatten(Tail(txt))

RECURSIVE Letters(_)
\* tokens_local = re.findall(r"[a-zа-я]+", text_value)
Letters(txt) ==
    IF txt = << >> THEN << >>
    ELSE (IF Head(txt).k = "w" THEN <<Head(txt)>> ELSE << >>) \o Letters(Tail(txt))

\* the result None of parse_number is val = -1
parse_number(tokens, idx) ==
    IF idx > Len(tokens) THEN [val |-> -1, next |-> idx]
    ELSE LET token == tokens[idx]
         IN IF token.k = "d" THEN [val |-> token.v, next |-> idx + 1]
            ELSE IF token.s \in DOMAIN teens THEN [val |-> teens[token.s], next |-> idx + 1]
            ELSE IF token.s \in DOMAIN tens
            THEN IF idx + 1 <= Len(tokens) /\ IsWord(tokens[idx + 1], DOMAIN units)
                 THEN [val |-> tens[token.s] + units[tokens[idx + 1].s], next |-> idx + 2]
                 ELSE [val |-> tens[token.s], next |-> idx + 1]
            ELSE IF token.s \in DOMAIN units THEN [val |-> units[token.s], next |-> idx + 1]
            ELSE [val |-> -1, next |-> idx]

NoTime == [found |-> FALSE, h |-> 0, m |-> 0]

\* if 0 <= hour <= 23 and 0 <= minute <= 59: return hour, minute
SpokenValid(hour, minute) ==
    IF hour.val # -1 /\ hour.val <= 23 /\ minute <= 59
    THEN [found |-> TRUE, h |-> hour.val, m |-> minute]
    ELSE NoTime

\* the minute is the number at j, or 0 when there is none
SpokenMinute(tl, hour, j) ==
    SpokenValid(hour, IF j <= Len(tl) /\ parse_number(tl, j).val # -1
                      THEN parse_number(tl, j).val ELSE 0)

\* an optional "час", "часа", "часов" after the hour is skipped
SpokenHour(tl, hour) ==
    SpokenMinute(tl, hour,
                 IF hour.next <= Len(tl) /\ IsWord(tl[hour.next], {"chas", "chasa", "chasov"})
                 THEN hour.next + 1 ELSE hour.next)

\* what one iteration of the loop of parse_spoken_time finds at the
\* preposition tokens_local[i]
SpokenAt(tl, i) == SpokenHour(tl, parse_number(tl, i + 1))

\* the loop over tokens_local: the first preposition with a valid time
SpokenIn(tl, hits) ==
    IF \E i \in 1..Len(tl) : IsWord(tl[i], {"polden"})
    THEN [found |-> TRUE, h |-> 12, m |-> 0]
    ELSE IF \E i \in 1..Len(tl) : IsWord(tl[i], {"polnoch"})
    THEN [found |-> TRUE, h |-> 0, m |-> 0]
    ELSE IF hits = {} THEN NoTime
    ELSE SpokenAt(tl, First(hits))

SpokenHits(tl) ==
    {i \in 1..Len(tl) : IsWord(tl[i], {"v", "vo"}) /\ SpokenAt(tl, i).found}

parse_spoken_time(txt) == SpokenIn(Letters(txt), SpokenHits(Letters(txt)))

\* target = now.replace(hour, minute, second=0); a target that is not after
\* now is not moved to the next day when it equals now
NextOccurrence_strict(now_ts, h, m) ==
    LET local == now_ts + MOSCOW_TZ
        target == local - (local % DAY) + h * 3600 + m * 60
    IN (IF target < local THEN target + DAY ELSE target) - MOSCOW_TZ

\* target = now.replace(hour, minute, second=0, microsecond=0);
\* if target <= now: target += timedelta(days=1); run_at is its UTC timestamp
NextOccurrence(now_ts, h, m) ==
    LET local == now_ts + MOSCOW_TZ
        target == local - (local % DAY) + h * 3600 + m * 60
    IN (IF target <= local THEN target + DAY ELSE target) - MOSCOW_TZ

\* a check of the hour alone
ValidTime_hour_only(h, m) == ~(h > 23)

\* if hour > 23 or minute > 59: return None, "Неверное время."
ValidTime(h, m) == ~(h > 23 \/ m > 59)

NoMatch == [ok |-> FALSE, err |-> "NoMatch", body |-> << >>, run_at |-> 0,
            matcher |-> 0, h |-> 0, m |-> 0]

Ok(body, run_at, k, h, m) ==
    [ok |-> TRUE, err |-> "", body |-> body, run_at |-> run_at, matcher |-> k,
     h |-> h, m |-> m]

Err(e, k) == [ok |-> FALSE, err |-> e, body |-> << >>, run_at |-> 0, matcher |-> k,
              h |-> 0, m |-> 0]

RECURSIVE DropWords(_, _)
\* re.sub(r"\b(w1|w2|...)\b", "", text): every occurrence of the words goes
DropWords(txt, S) ==
    IF txt = << >> THEN << >>
    ELSE (IF IsWord(Head(txt), S) THEN << >> ELSE <<Head(txt)>>) \o DropWords(Tail(txt), S)

RECURSIVE DropKind(_, _)
\* every token of kind k goes
DropKind(txt, k) ==
    IF txt = << >> THEN << >>
    ELSE (IF Head(txt).k = k THEN << >> ELSE <<Head(txt)>>) \o DropKind(Tail(txt), k)

\* re.sub(pattern, "", text, count=1) for a match of len tokens at i
RemoveSpan(txt, i, len) == SubSeq(txt, 1, i - 1) \o SubSeq(txt, i + len, Len(txt))

\* if not reminder_text: reminder_text = "Напоминание"
OrPlaceholder(body) == IF body = << >> THEN <<Word("Napominanie")>> ELSE body

TimeResult(txt_body, now_ts, k, h, m) ==
    IF ~ValidTime(h, m) THEN Err("InvalidTime", k)
    ELSE Ok(OrPlaceholder(DropWords(txt_body, fillers_time)), NextOccurrence(now_ts, h, m),
            k, h, m)

\* positions where r"\b(\d{1,2})[:.](\d{2})\b" matches
ClockAt(txt) == {i \in 1..Len(txt) : txt[i].k = "c" /\ txt[i].n <= 2}

\* positions where r"\b(?:в|во)\s*(\d{1,2})\s+(\d{2})\b" matches
SpaceAt(txt) ==
    {i \in 1..(Len(txt) - 2) :
        /\ IsWord(txt[i], {"v", "vo"})
        /\ txt[i + 1].k = "d" /\ txt[i + 1].n <= 2
        /\ txt[i + 2].k = "d" /\ txt[i + 2].n = 2}

\* positions where r"\b(?:в|во)\s*(\d{1,2})\b" matches
HourAt(txt) ==
    {i \in 1..(Len(txt) - 1) :
        /\ IsWord(txt[i], {"v", "vo"})
        /\ txt[i + 1].k = "d" /\ txt[i + 1].n <= 2}

\* the HH:MM / HH.MM branch; its re.sub has no count
match_clock(txt, now_ts) ==
    IF ClockAt(txt) = {} THEN NoMatch
    ELSE TimeResult(DropKind(txt, "c"), now_ts, 1,
                    txt[First(ClockAt(txt))].v, txt[First(ClockAt(txt))].m)

\* the "в HH MM" branch
match_space(txt, now_ts) ==
    IF SpaceAt(txt) = {} THEN NoMatch
    ELSE LET i == First(SpaceAt(txt))
         IN TimeResult(RemoveSpan(txt, i, 3), now_ts, 2, txt[i + 1].v, txt[i + 2].v)

\* the "в HH" branch
match_hour(txt, now_ts) ==
    IF HourAt(txt) = {} THEN NoMatch
    ELSE LET i == First(HourAt(txt))
         IN TimeResult(RemoveSpan(txt, i, 2), now_ts, 3, txt[i + 1].v, 0)

\* the spoken branch: every time word of the text goes
SpokenResult(txt, now_ts, spoken_time) ==
    IF ~spoken_time.found THEN NoMatch
    ELSE Ok(OrPlaceholder(DropWords(DropWords(txt, time_words), fillers_time)),
            NextOccurrence(now_ts, spoken_time.h, spoken_time.m),
            4, spoken_time.h, spoken_time.m)

match_spoken(txt, now_ts) == SpokenResult(txt, now_ts, parse_spoken_time(txt))

\* a duration of zero minutes is accepted
DurationResult_zero(body, now_ts, minutes) ==
    IF minutes < 0 THEN Err("InvalidDuration", 5)
    ELSE Ok(OrPlaceholder(body), now_ts + minutes * 60, 5, 0, 0)

\* if minutes <= 0: error; run_at = now + minutes * 60
DurationResult(body, now_ts, minutes) ==
    IF minutes <= 0 THEN Err("InvalidDuration", 5)
    ELSE Ok(OrPlaceholder(body), now_ts + minutes * 60, 5, 0, 0)

\* the branch on "через" in tokens: the number after the first "через";
\* "через", the minute words, every digit run and every number word go
TokensResult(txt, now_ts, minutes_val) ==
    IF minutes_val = -1 THEN NoMatch
    ELSE DurationResult(DropWords(DropWords(DropKind(DropWords(DropWords(txt, {"cherez"}),
                                                               minute_words), "d"),
                                            number_words), fillers_tokens),
                        now_ts, minutes_val)

\* idx = tokens.index("через"); minutes_val, _ = parse_number(tokens, idx + 1)
MinutesAfter(tokens, at) ==
    IF at = {} THEN -1 ELSE parse_number(tokens, First(at) + 1).val

CherezAt(tokens) == {i \in 1..Len(tokens) : IsWord(tokens[i], {"cherez"})}

match_tokens(txt, now_ts) ==
    TokensResult(txt, now_ts, MinutesAfter(Flatten(txt), CherezAt(Flatten(txt))))

\* positions where r"\bчерез\s+(\d{1,4})\s*мин" matches
RegexAt(txt) ==
    {i \in 1..(Len(txt) - 2) :
        /\ IsWord(txt[i], {"cherez"})
        /\ txt[i + 1].k = "d" /\ txt[i + 1].n <= 4
        /\ IsWord(txt[i + 2], minute_words)}

RECURSIVE StripDurations(_)
\* re.sub(r"\bчерез\s+\d{1,4}\s*мин(ут|уты|уту)?\b", "", text)
StripDurations(txt) ==
    IF txt = << >> THEN << >>
    ELSE IF 1 \in RegexAt(txt) THEN StripDurations(SubSeq(txt, 4, Len(txt)))
    ELSE <<Head(txt)>> \o StripDurations(Tail(txt))

\* the branch on the regex "через N мин"
match_regex(txt, now_ts) ==
    IF RegexAt(txt) = {} THEN NoMatch
    ELSE DurationResult(DropWords(StripDurations(txt), fillers_regex), now_ts,
                        txt[First(RegexAt(txt)) + 1].v)

\* the duration branches tried before the time-of-day branches
\* the result of the first branch of the sequence that matched
FirstResult(order, hit) ==
    IF hit = {} THEN Err("Unrecognized", 0) ELSE order[First(hit)]

Matched(order) == FirstResult(order, {i \in 1..Len(order) : order[i] # NoMatch})

\* the duration branches tried before the time-of-day branches
parse_time_from_text_duration_first(txt, now_ts) ==
    Matched(<<match_tokens(txt, now_ts), match_regex(txt, now_ts),
              match_clock(txt, now_ts), match_space(txt, now_ts),
              match_hour(txt, now_ts), match_spoken(txt, now_ts)>>)

\* the branches in the order of the code; the first that matches returns
parse_time_from_text(txt, now_ts) ==
    Matched(<<match_clock(txt, now_ts), match_space(txt, now_ts),
              match_hour(txt, now_ts), match_spoken(txt, now_ts),
              match_tokens(txt, now_ts), match_regex(txt, now_ts)>>)

\* a handler that stores the reminder whatever the parser returned
Reply_always(res, create, made, refused) ==
    LET st == schedule_reminder([tasks |-> TASKS, procs |-> procs], nextId)
    IN /\ up
       /\ parsed = NotParsed
       /\ text # << >>
       /\ parsed' = res
       /\ reminders' = add_reminder(reminders, nextId, res.run_at)
       /\ nextId' = nextId + 1
       /\ TASKS' = st.tasks
       /\ procs' = st.procs
       /\ lastAct' = Act(made, nextId, 0)
       /\ UNCHANGED <<now, plainSent, escSent, ackBtn, confirmBtn, resetAt, up,
                      sendFailed, lastSent, text, failures>>

\* what set_reminder and handle_voice do with the parser's result res: when
\* the handler's test create passes, add the row and schedule its task;
\* otherwise only a reply is sent
Reply(res, create, made, refused) ==
    LET st == schedule_reminder([tasks |-> TASKS, procs |-> procs], nextId)
    IN /\ up
       /\ parsed = NotParsed
       /\ text # << >>
       /\ parsed' = res
       /\ IF create
          THEN /\ reminders' = add_reminder(reminders, nextId, res.run_at)
               /\ nextId' = nextId + 1
               /\ TASKS' = st.tasks
               /\ procs' = st.procs
               /\ lastAct' = Act(made, nextId, 0)
          ELSE /\ lastAct' = Act(refused, 0, 0)
               /\ UNCHANGED <<reminders, nextId, TASKS, procs>>
       /\ UNCHANGED <<now, plainSent, escSent, ackBtn, confirmBtn, resetAt, up,
                      sendFailed, lastSent, text, failures>>

\* parsed, error = parse_time_from_text(text); if parsed: ...
TextReply(res) == Reply(res, res.ok, "create", "parse_error")

\* parsed, error = parse_time_from_text(text); if error: reply and return
VoiceReply(res) == Reply(res, res.err = "", "voice_create", "voice_error")

\* set_reminder on a text message
set_reminder_text == TextReply(parse_time_from_text(text, now))

\* handle_voice on a voice message recognized as text
handle_voice == VoiceReply(parse_time_from_text(text, now))

InitParse ==
    /\ Boot
    /\ now \in ParseNows
    /\ text \in Texts
    /\ parsed = NotParsed

NextParse ==
    \/ set_reminder_text
    \/ handle_voice

\* one text or voice message handled at one instant
SpecParse == InitParse /\ [][NextParse]_vars

Present == DOMAIN reminders

Removal(id) == id \in DOMAIN reminders /\ id \notin DOMAIN reminders'

\* C1: in every reachable state at most one live (not finished, not
\* cancelled) delivery task exists for any reminder id.
C1_AtMostOneLiveTask ==
    \A id \in Ids : Cardinality(LiveFor(procs, id)) <= 1

\* C2: right after the program has started, every row with acknowledged =
\* false and awaiting_confirm = false, overdue rows included, has a delivery
\* task.
C2_StartupSpawnsEveryRecoverable ==
    lastAct.kind = "startup" =>
        \A id \in Present :
            (~reminders[id].acknowledged /\ ~reminders[id].awaiting_confirm)
                => LiveFor(procs, id) # {}

\* C3: the persisted attempts of a row is within 0..MAX_ATTEMPTS and equals
\* the number of plain notifications sent for the id since its creation or
\* its last confirm_no.
C3_AttemptsCountPlainSends ==
    \A id \in Present :
        /\ reminders[id].attempts \in 0..MAX_ATTEMPTS
        /\ plainSent[id] = reminders[id].attempts

\* C4: once attempts has reached MAX_ATTEMPTS exactly one escalation prompt
\* is sent, awaiting_confirm is then true, the task has ended, and no plain
\* notification is sent while the escalation is outstanding.
C4_OneEscalation ==
    \A id \in Present :
        /\ escSent[id] <= 1
        /\ reminders[id].awaiting_confirm => escSent[id] = 1
        /\ escSent[id] >= 1 =>
              /\ reminders[id].awaiting_confirm
              /\ reminders[id].attempts = MAX_ATTEMPTS
              /\ plainSent[id] = MAX_ATTEMPTS
              /\ LiveFor(procs, id) = {}

\* C5: confirm_no on an existing row writes attempts = 0, both flags false
\* and run_at = now + REPEAT_INTERVAL_SEC and replaces the registered task by
\* a new one; it is followed by exactly one plain notification at that
\* run_at: none before it, and not a second one within the same interval.
C5_ConfirmNoOneDelivery ==
    /\ [][(lastAct'.kind = "confirm_no" /\ lastAct'.id \in Present) =>
            LET id == lastAct'.id
            IN /\ reminders'[id] = [attempts |-> 0, awaiting_confirm |-> FALSE,
                                    acknowledged |-> FALSE,
                                    run_at |-> now + REPEAT_INTERVAL_SEC]
               /\ id \in DOMAIN TASKS'
               /\ procs'[TASKS'[id]].pc = "start"
               /\ id \in DOMAIN TASKS => ~Live(procs', TASKS[id]) \/ TASKS'[id] = TASKS[id]
               /\ LiveFor(procs', id) = {TASKS'[id]}]_vars
    /\ [](\A id \in Present \cap DOMAIN resetAt :
            /\ plainSent[id] >= 1 => now >= resetAt[id]
            /\ now < resetAt[id] + REPEAT_INTERVAL_SEC => plainSent[id] <= 1)

Callbacks == {"del", "ack", "confirm_yes", "confirm_no"}

\* C6: a callback on an id whose row is absent changes no row and creates
\* none, sends nothing, the task it spawned never sends, and once no task of
\* the id is left the registry has no entry for the id.
C6_AbsentIdNoOp ==
    /\ [][(lastAct'.kind \in Callbacks /\ lastAct'.id \notin Present) =>
            /\ reminders' = reminders
            /\ plainSent' = plainSent
            /\ escSent' = escSent]_vars
    /\ [](\A p \in Slots : procs[p].orphan => procs[p].pc \notin {"send_plain", "send_esc"})
    /\ [](\A id \in Ids :
            (id \notin Present /\ \A p \in Slots : procs[p].pc # "done" => procs[p].rid # id)
                => id \notin DOMAIN TASKS)

C6_Witness ==
    /\ lastAct.kind = "confirm_no"
    /\ lastAct.id \notin Present
    /\ \E p \in Slots : procs[p].orphan /\ procs[p].rid = lastAct.id

\* C7: after ack, confirm_yes or del of an id the row of the id is absent and
\* no live delivery task for the id remains.
C7_DeleteLeavesNoTask ==
    lastAct.kind \in {"del", "ack", "confirm_yes"} =>
        /\ lastAct.id \notin Present
        /\ LiveFor(procs, lastAct.id) = {}

\* C8: a row leaves the table only by del, ack or confirm_yes of its id or by
\* a task wake that read acknowledged = true; a row with awaiting_confirm =
\* true leaves it only by a callback, never by a task at the attempts cap.
C8_RemovalOnlyByAckOrDelete ==
    [][\A id \in Ids : Removal(id) =>
          /\ lastAct'.id = id
          /\ \/ lastAct'.kind \in {"del", "ack", "confirm_yes"}
             \/ lastAct'.kind = "wake" /\ reminders[id].acknowledged
          /\ (reminders[id].awaiting_confirm \/ reminders[id].attempts >= MAX_ATTEMPTS)
                => lastAct'.kind \in {"del", "ack", "confirm_yes"}]_vars

C8_Witness ==
    /\ lastAct.kind = "sent_esc"
    /\ lastAct.id \in Present
    /\ reminders[lastAct.id].awaiting_confirm
    /\ reminders[lastAct.id].attempts = MAX_ATTEMPTS

\* C9: the registry is authoritative: a live task for id is the task the
\* registry maps id to, and every handle in the registry refers to a task
\* that has not finished.
C9_RegistryAuthoritative ==
    /\ \A p \in Slots : Live(procs, p) =>
          (procs[p].rid \in DOMAIN TASKS /\ TASKS[procs[p].rid] = p)
    /\ \A id \in DOMAIN TASKS : procs[TASKS[id]].pc # "done"

\* C10: a task that has been cancelled does no further store read, store
\* write, store delete or notification send.
C10_CancelledTaskDoesNothing ==
    [][\A p \in Slots : (procs[p].pc # "done" /\ procs[p].cancelled) =>
          /\ ~(lastAct'.proc = p /\ lastAct'.kind \in {"wake", "sent_plain", "sent_esc", "send_failed"})
          /\ lastAct'.proc = p =>
                (reminders' = reminders /\ plainSent' = plainSent /\ escSent' = escSent)]_vars

C10_Witness ==
    /\ lastAct.kind = "cancelled"
    /\ \E p \in Slots : procs[p].cancelled /\ procs[p].pc = "send_plain"

\* C11: a task decides to send on the row as it is at that moment, and a
\* task never writes to a row that a callback has written since the task
\* last read it.
C11_NoWriteOverCallback ==
    [][\A p \in Slots :
          /\ (procs'[p].pc = "send_plain" /\ procs[p].pc # "send_plain") =>
                /\ procs'[p].rid \in DOMAIN reminders'
                /\ procs'[p].attempts = reminders'[procs'[p].rid].attempts
                /\ reminders'[procs'[p].rid].run_at <= now
          /\ (/\ lastAct'.proc = p
              /\ lastAct'.kind \in {"sent_plain", "sent_esc"}
              /\ procs[p].rid \in Present) => ~procs[p].stale]_vars

\* C12: when a send raises, the task ends, the row is left as it was, the
\* registry holds no entry for the id, and the next startup spawns a task for
\* the row.
C12_SendFailureRecoverable ==
    /\ [][\A p \in Slots :
            (lastAct'.kind = "send_failed" /\ lastAct'.proc = p) =>
                /\ procs'[p].pc = "done"
                /\ reminders' = reminders
                /\ procs[p].rid \notin DOMAIN TASKS']_vars
    /\ [][lastAct'.kind = "startup" =>
            \A id \in sendFailed \cap Present :
                (~reminders[id].acknowledged /\ ~reminders[id].awaiting_confirm) =>
                    LiveFor(procs', id) # {}]_vars

\* C13: a storage write that raises ends the operation it belongs to: the
\* task that was writing is over, confirm_no and set_reminder spawn no task,
\* and the table is as it was before the failed write.
C13_StorageFailureAborts ==
    [][/\ \A p \in Slots :
            (lastAct'.kind = "store_failed" /\ lastAct'.proc = p) =>
                (reminders' = reminders /\ procs'[p].pc = "done")
       /\ lastAct'.kind \in {"confirm_no_failed", "create_failed"} =>
                (reminders' = reminders /\ procs' = procs /\ TASKS' = TASKS)
       /\ lastAct'.kind = "delete_failed" => reminders' = reminders]_vars

\* a plain notification went out, the write of attempts raised, the row stays
C13_Witness ==
    /\ lastAct.kind = "store_failed"
    /\ lastAct.id \in Present
    /\ plainSent[lastAct.id] > reminders[lastAct.id].attempts
    /\ procs[lastAct.proc].pc = "done"

\* C14: no row is acknowledged and awaiting confirmation at the same time.
C14_NotAckedAndAwaiting ==
    \A id \in Present :
        ~(reminders[id].acknowledged /\ reminders[id].awaiting_confirm)

\* an escalated row whose ack button is still on the screen
C14_Witness ==
    \E id \in Present :
        /\ reminders[id].awaiting_confirm
        /\ ~reminders[id].acknowledged
        /\ id \in ackBtn
        /\ id \in confirmBtn

\* C15: a plain notification sent at t sets the row's run_at to
\* t + REPEAT_INTERVAL_SEC and its task goes on to sleep until then; two
\* notifications for the same row are sent at least REPEAT_INTERVAL_SEC apart.
C15_NotificationsSpaced ==
    [][\A p \in Slots :
          LET id == procs[p].rid
          IN /\ (lastAct'.kind = "sent_plain" /\ lastAct'.proc = p /\ id \in Present) =>
                   /\ reminders'[id].run_at = now + REPEAT_INTERVAL_SEC
                   /\ procs'[p].pc = "sleep"
                   /\ procs'[p].wakeAt = now + REPEAT_INTERVAL_SEC
             /\ (/\ lastAct'.kind \in {"sent_plain", "sent_esc"}
                 /\ lastAct'.proc = p
                 /\ id \in DOMAIN lastSent) =>
                   now - lastSent[id] >= REPEAT_INTERVAL_SEC]_vars

\* C16: a time of day H:M accepted by one of the branches 1-4 at now gives
\* the run_at of today's H:M Moscow time when that is after now and of
\* tomorrow's otherwise, so now < run_at <= now + 24 h.
C16_TodayOrTomorrow ==
    (parsed.ok /\ parsed.matcher \in 1..4) =>
        LET local == now + MOSCOW_TZ
            today == local - (local % DAY) + parsed.h * 3600 + parsed.m * 60 - MOSCOW_TZ
        IN /\ parsed.h \in 0..23 /\ parsed.m \in 0..59
           /\ parsed.run_at = IF today > now THEN today ELSE today + DAY
           /\ now < parsed.run_at
           /\ parsed.run_at <= now + DAY
           /\ \E id \in Present : reminders[id].run_at = parsed.run_at

\* "в 9 купить" at 10:00 is set for 09:00 of the next day
C16_Witness ==
    /\ text = <<Word("v"), Num(9, 1), Word("kupit")>>
    /\ now = 7 * 3600
    /\ parsed.ok
    /\ parsed.matcher = 3
    /\ parsed.run_at = DAY + 6 * 3600

\* no branch for a time of day matches the text
NoTimeOfDay(txt) ==
    /\ ClockAt(txt) = {}
    /\ SpaceAt(txt) = {}
    /\ HourAt(txt) = {}
    /\ ~parse_spoken_time(txt).found

\* the number a single token writes: a digit run or one number word
NumberOf(t) ==
    IF t.k = "d" THEN t.v
    ELSE IF IsWord(t, DOMAIN units) THEN units[t.s]
    ELSE IF IsWord(t, DOMAIN teens) THEN teens[t.s]
    ELSE IF IsWord(t, DOMAIN tens) THEN tens[t.s]
    ELSE -1

\* the text reads "... через N минут ...", with that "через" its first
DurationForm(txt) ==
    LET at == {i \in 1..Len(txt) : IsWord(txt[i], {"cherez"})}
    IN /\ at # {}
       /\ First(at) + 2 <= Len(txt)
       /\ NumberOf(txt[First(at) + 1]) # -1
       /\ IsWord(txt[First(at) + 2], minute_words)

DurationOf(txt) ==
    NumberOf(txt[First({i \in 1..Len(txt) : IsWord(txt[i], {"cherez"})}) + 1])

Matches(k, txt, now_ts) ==
    CASE k = 1 -> ClockAt(txt) # {}
      [] k = 2 -> SpaceAt(txt) # {}
      [] k = 3 -> HourAt(txt) # {}
      [] k = 4 -> parse_spoken_time(txt).found
      [] k = 5 -> match_tokens(txt, now_ts) # NoMatch \/ match_regex(txt, now_ts) # NoMatch

\* what the branch of the given rank returns on its own
Alone(k, txt, now_ts) ==
    CASE k = 1 -> match_clock(txt, now_ts)
      [] k = 2 -> match_space(txt, now_ts)
      [] k = 3 -> match_hour(txt, now_ts)
      [] k = 4 -> match_spoken(txt, now_ts)
      [] k = 5 -> IF match_tokens(txt, now_ts) # NoMatch THEN match_tokens(txt, now_ts)
                  ELSE match_regex(txt, now_ts)

\* C18: the result is that of the first branch, in the order HH:MM, "в HH MM",
\* "в HH", spoken time, duration, that matches the text; when none matches
\* the result is Unrecognized.
C18_FirstMatcherWins ==
    parsed # NotParsed =>
        LET M == {k \in 1..5 : Matches(k, text, now)}
        IN IF M = {} THEN parsed = Err("Unrecognized", 0)
           ELSE /\ parsed.matcher = First(M)
                /\ parsed = Alone(First(M), text, now)

\* "15:00 через 9" is set for 15:00, not for nine minutes from now
C18_Witness ==
    /\ text = <<Clock(15, 2, 0), Word("cherez"), Num(9, 1)>>
    /\ match_tokens(text, now).ok
    /\ parsed.ok
    /\ parsed.matcher = 1
    /\ parsed.h = 15

\* C19: when the HH:MM branch or the "в HH MM" branch matches digits with
\* HH > 23 or MM > 59 the result is InvalidTime, and no row is made, whatever
\* a later branch would have returned.
C19_InvalidTimeNoFallThrough ==
    LET c == text[First(ClockAt(text))]
        i == First(SpaceAt(text))
        bad1 == ClockAt(text) # {} /\ (c.v > 23 \/ c.m > 59)
        bad2 == /\ ClockAt(text) = {}
                /\ SpaceAt(text) # {}
                /\ (text[i + 1].v > 23 \/ text[i + 2].v > 59)
    IN (parsed # NotParsed /\ (bad1 \/ bad2)) =>
            (~parsed.ok /\ parsed.err = "InvalidTime" /\ Present = {})

\* "в 9 75" is refused although "в 9" alone would be accepted
C19_Witness ==
    /\ text = <<Word("v"), Num(9, 1), Num(75, 2)>>
    /\ match_hour(text, now).ok
    /\ parsed.matcher = 2
    /\ parsed.err = "InvalidTime"

\* the text without its time tokens, read generously: the digits the
\* returning branch matched, and every word of that branch's time vocabulary
\* wherever it stands
WithoutTime(txt, now_ts, k) ==
    CASE k = 1 -> DropKind(txt, "c")
      [] k = 2 -> RemoveSpan(txt, First(SpaceAt(txt)), 3)
      [] k = 3 -> RemoveSpan(txt, First(HourAt(txt)), 2)
      [] k = 4 -> DropWords(txt, time_words)
      [] k = 5 ->
            IF match_tokens(txt, now_ts) # NoMatch
            THEN LET i == First({j \in 1..Len(txt) : IsWord(txt[j], {"cherez"})})
                     rest == IF txt[i + 1].k = "d" THEN RemoveSpan(txt, i + 1, 1) ELSE txt
                 IN DropWords(rest, {"cherez"} \cup minute_words \cup number_words)
            ELSE StripDurations(txt)

\* the filler words of the returning branch
FillersOf(txt, now_ts, k) ==
    IF k \in 1..4 THEN fillers_time
    ELSE IF match_tokens(txt, now_ts) # NoMatch THEN fillers_tokens
    ELSE fillers_regex

\* C20: on every successful parse the body is the text without the
\* recognized time tokens and without the filler words, every other word and
\* number kept in its place, and the placeholder when nothing is left; it is
\* never empty.
C20_BodyIsTextMinusTimeAndFillers ==
    parsed.ok =>
        /\ parsed.body # << >>
        /\ parsed.body = OrPlaceholder(DropWords(WithoutTime(text, now, parsed.matcher),
                                                 FillersOf(text, now, parsed.matcher)))

\* C21: the parser returns a full pair of body and run_at or an error, never
\* both and never neither; on an error the text or voice handler leaves the
\* table and the registry as they were, and on a pair it adds exactly one
\* row, with attempts = 0, both flags false and run_at the parsed time, and
\* registers exactly one task, for the id of that row.
C21_ParseAllOrNothing ==
    [][parsed' # parsed =>
          /\ parsed'.ok <=> parsed'.err = ""
          /\ parsed'.ok => parsed'.body # << >>
          /\ ~parsed'.ok =>
                (reminders' = reminders /\ TASKS' = TASKS /\ procs' = procs
                 /\ nextId' = nextId)
          /\ parsed'.ok =>
                /\ nextId \notin DOMAIN reminders
                /\ DOMAIN reminders' = DOMAIN reminders \cup {nextId}
                /\ \A i \in DOMAIN reminders : reminders'[i] = reminders[i]
                /\ reminders'[nextId] = [run_at |-> parsed'.run_at, attempts |-> 0,
                                         acknowledged |-> FALSE,
                                         awaiting_confirm |-> FALSE]
                /\ DOMAIN TASKS' = DOMAIN TASKS \cup {nextId}
                /\ {p \in Slots : procs'[p] # procs[p]} = {TASKS'[nextId]}
                /\ procs'[TASKS'[nextId]] = NewTask(nextId)
                /\ LiveFor(procs', nextId) = {TASKS'[nextId]}]_vars

\* a voice message whose time is refused leaves nothing behind
C21_Witness ==
    /\ lastAct.kind = "voice_error"
    /\ parsed.err = "InvalidTime"
    /\ Present = {}
    /\ TASKS = [i \in {} |-> 0]

\* the notifications sent for all ids so far
Sent == <<plainSent, escSent>>

\* C22: a task goes to send_message only in the step in which it has read
\* the row and found run_at <= now, so every notification is sent at a time
\* that is not before the run_at the task last read; a task whose sleep ends
\* and that reads a run_at still in the future sleeps until that run_at and
\* sends nothing.
C22_SendOnlyWhenDue ==
    [][\A p \in Slots :
          LET id == procs'[p].rid
              reads == lastAct'.proc = p /\ lastAct'.kind \in {"wake", "sent_plain"}
              due == id \in DOMAIN reminders' /\ reminders'[id].run_at <= now
          IN /\ (procs'[p].pc \in {"send_plain", "send_esc"} /\ procs'[p].pc # procs[p].pc) =>
                   (reads /\ due)
             /\ (lastAct'.proc = p /\ lastAct'.kind \in {"sent_plain", "sent_esc"}) =>
                   procs[p].pc \in {"send_plain", "send_esc"}
             /\ (/\ lastAct'.kind = "wake" /\ lastAct'.proc = p
                 /\ procs[p].pc = "sleep"
                 /\ procs[p].rid \in Present
                 /\ ~reminders[procs[p].rid].acknowledged
                 /\ ~reminders[procs[p].rid].awaiting_confirm
                 /\ reminders[procs[p].rid].run_at > now) =>
                   /\ procs'[p].pc = "sleep"
                   /\ procs'[p].wakeAt = reminders[procs[p].rid].run_at
                   /\ Sent' = Sent]_vars

\* a task woke after confirm_no had moved run_at and sleeps again
C22_Witness ==
    \E p \in Slots :
        /\ lastAct.kind = "wake" /\ lastAct.proc = p
        /\ procs[p].pc = "sleep"
        /\ procs[p].resumed
        /\ procs[p].rid \in Present \cap DOMAIN resetAt
        /\ procs[p].wakeAt = resetAt[procs[p].rid]
        /\ procs[p].wakeAt > now

\* the ids whose row was created and has been deleted: the table hands out
\* the ids below nextId, each once
Deleted == {id \in Ids : id < nextId /\ id \notin Present}

\* C23: once the row of an id has been deleted no task starts a send_message
\* for that id, whether the task was cancelled by the deletion, was sleeping
\* outside the registry, or was spawned afterwards.
C23_NoSendAfterDelete ==
    [][\A p \in Slots :
          (procs'[p].pc \in {"send_plain", "send_esc"} /\ procs'[p].pc # procs[p].pc) =>
              (procs'[p].rid \notin Deleted /\ procs'[p].rid \notin Deleted')]_vars

\* a row was deleted while a task of its id slept outside the registry
C23_Witness ==
    /\ lastAct.kind \in {"del", "ack", "confirm_yes"}
    /\ lastAct.id \in Deleted
    /\ \E p \in Slots :
          /\ procs[p].rid = lastAct.id
          /\ procs[p].pc = "sleep"
          /\ ~procs[p].cancelled
          /\ ~procs[p].orphan

\* C24: a row that has been deleted does not come back: the only step that
\* adds a row is a creation, the row it adds has an id that no row had before,
\* and neither a task's write that lands after the deletion nor a late
\* confirm_no brings a row back.
C24_DeletedStaysDeleted ==
    [][/\ nextId' >= nextId
       /\ \A id \in Ids :
            (id \notin DOMAIN reminders /\ id \in DOMAIN reminders') =>
                /\ id = nextId
                /\ nextId' = nextId + 1
                /\ lastAct'.kind \in {"create", "voice_create"}
       /\ \A id \in Deleted : id \in Deleted']_vars

\* a task outside the registry wrote attempts and run_at after the row was
\* deleted
C24_Witness ==
    /\ lastAct.kind = "sent_plain"
    /\ lastAct.id \in Deleted
    /\ plainSent[lastAct.id] >= 1

\* C25: while the program runs without a restart and every send and every
\* storage write succeeds, each row with acknowledged = false and
\* awaiting_confirm = false has a live delivery task of its id.
C25_PendingHasLiveTask ==
    \A id \in Present :
        (~reminders[id].acknowledged /\ ~reminders[id].awaiting_confirm)
            => LiveFor(procs, id) # {}

\* a pending row whose only live task the registry no longer holds
C25_Witness ==
    \E id \in Present :
        /\ ~reminders[id].awaiting_confirm
        /\ id \notin DOMAIN TASKS
        /\ Cardinality(LiveFor(procs, id)) = 1
        /\ \A p \in Slots : procs[p].pc # "done" => Live(procs, p)

\* the reminder has been escalated and its task is over
Escalated(id) ==
    /\ id \in Present
    /\ reminders[id].awaiting_confirm
    /\ reminders[id].attempts = MAX_ATTEMPTS
    /\ plainSent[id] = MAX_ATTEMPTS
    /\ escSent[id] = 1
    /\ \A p \in Slots : procs[p].pc # "done" => procs[p].rid # id
    /\ id \notin DOMAIN TASKS

\* C26: in a fairly scheduled run without failures and callbacks every
\* reminder that is created gets its first notification, and then, after
\* exactly MAX_ATTEMPTS plain notifications and one escalation prompt, is in
\* awaiting_confirm = true with its task over and its registry entry gone; it
\* never gets more than MAX_ATTEMPTS plain notifications.
C26_EventuallyEscalated ==
    \A id \in Ids :
        /\ (id \in Present /\ plainSent[id] = 0) ~> (plainSent[id] = 1 /\ escSent[id] = 0)
        /\ (id \in Present) ~> Escalated(id)
        /\ [](Escalated(id) => [](Escalated(id)))
        /\ [](plainSent[id] <= MAX_ATTEMPTS /\ escSent[id] <= 1)
        /\ [](escSent[id] = 1 => plainSent[id] = MAX_ATTEMPTS)

\* two reminders created at different times have both been escalated
C26_Witness ==
    /\ \A id \in Ids : Escalated(id)
    /\ \E i, j \in Present : reminders[i].run_at # reminders[j].run_at

TypeOK ==
    /\ DOMAIN reminders \subseteq Ids
    /\ nextId \in 1..(MaxId + 1)
    /\ DOMAIN TASKS \subseteq Ids
    /\ \A i \in DOMAIN TASKS : TASKS[i] \in Slots
    /\ now \in 0..LiveHorizon \cup ParseNows
    /\ up \in BOOLEAN
====
